---- MODULE Spec2Model ----
(***************************************************************************)
(* A model of github.com/ferux/xslog: the slog.Handler over zerolog        *)
(* (zerolog.go) and the context-carried field store (context.go).          *)
(*                                                                         *)
(* Go slices are modelled as slice headers (arr, len, cap) over a heap of  *)
(* backing arrays, so that sharing of storage between a handler and the    *)
(* handlers derived from it is something the model can exhibit.            *)
(***************************************************************************)
EXTENDS Integers, Sequences, FiniteSets, TLC

VARIABLES
    handlers,     \* the *ZerologHandler objects created so far, by identity
    groupArrays,  \* heap: backing arrays of []group
    attrArrays,   \* heap: backing arrays of []slog.Attr
    contexts,     \* the context.Context values created so far, by identity
    stores,       \* heap: the *slogFieldsStore objects
    storeArrays,  \* heap: backing arrays of the stores' fields
    last          \* the most recent call: its arguments, result and output

vars == <<handlers, groupArrays, attrArrays, contexts, stores, storeArrays, last>>

(***************************************************************************)
(* Bounds of the model.                                                    *)
(***************************************************************************)
MaxHandlers == 4       \* handlers of the derivation specification
MaxHandlersCtx == 2    \* handlers of the field-store specification
MaxHandlersLevel == 2  \* handlers of the level specification
MaxContexts == 3       \* contexts, the background context included
MaxStoreFields == 4    \* fields of one store

(***************************************************************************)
(* slog levels and zerolog levels.                                         *)
(***************************************************************************)
LevelDebug == -4
LevelInfo == 0
LevelWarn == 4
LevelError == 8

ZDebugLevel == 0
ZInfoLevel == 1
ZWarnLevel == 2
ZErrorLevel == 3

\* the minimum levels a zerolog.Logger can be given: TraceLevel (-1), the four
\* above, FatalLevel, PanicLevel, NoLevel and Disabled (7)
SinkLevels == -1..7

(***************************************************************************)
(* slog.Attr values.  kind is the slog.Kind; num and str carry scalar      *)
(* payloads; dyn is the dynamic type held by a KindAny value; grp holds    *)
(* the members of a KindGroup value, or (one element) the value a          *)
(* KindLogValuer resolves to.                                              *)
(***************************************************************************)
MkAttr(k, kind, n, s, d, g) ==
    [key |-> k, kind |-> kind, num |-> n, str |-> s, dyn |-> d, grp |-> g]

\* slog.Attr{}: empty key, Value{} whose Kind() is KindAny and Any() is nil
ZeroAttr == MkAttr("", "Any", 0, "", "nil", <<>>)

IntAttr(k, n) == MkAttr(k, "Int64", n, "", "", <<>>)
StrAttr(k, s) == MkAttr(k, "String", 0, s, "", <<>>)
ErrAttr(k, s) == MkAttr(k, "Any", 0, s, "error", <<>>)
GroupAttr(k, g) == MkAttr(k, "Group", 0, "", "", g)
ValuerAttr(k, v) == MkAttr(k, "LogValuer", 0, "", "", <<v>>)

(***************************************************************************)
(* zerolog event fields, in the order they were appended to the buffer.    *)
(***************************************************************************)
Field(k, typ, n, s, sub) ==
    [key |-> k, typ |-> typ, num |-> n, str |-> s, sub |-> sub]

RECURSIVE appendAttrToEvent(_, _)
RECURSIVE appendGroupMembers(_, _, _)

\* the loop "for _, groupAttr := range group" of appendAttrToEvent
appendGroupMembers(group, i, dict) ==
    IF i > Len(group) THEN dict
    ELSE appendGroupMembers(group, i + 1, appendAttrToEvent(group[i], dict))

appendAttrToEvent(attr, event) ==
    CASE attr.kind = "Group" ->
            Append(event, Field(attr.key, "dict", 0, "",
                                appendGroupMembers(attr.grp, 1, <<>>)))
      [] attr.kind = "LogValuer" ->
            appendAttrToEvent([attr.grp[1] EXCEPT !.key = attr.key], event)
      [] attr.kind = "Bool" -> Append(event, Field(attr.key, "bool", attr.num, "", <<>>))
      [] attr.kind = "Int64" -> Append(event, Field(attr.key, "int64", attr.num, "", <<>>))
      [] attr.kind = "Uint64" -> Append(event, Field(attr.key, "uint64", attr.num, "", <<>>))
      [] attr.kind = "Float64" -> Append(event, Field(attr.key, "float64", attr.num, "", <<>>))
      [] attr.kind = "Duration" -> Append(event, Field(attr.key, "dur", attr.num, "", <<>>))
      [] attr.kind = "Time" -> Append(event, Field(attr.key, "time", attr.num, "", <<>>))
      [] attr.kind = "String" -> Append(event, Field(attr.key, "str", 0, attr.str, <<>>))
      [] attr.kind = "Any" ->
            IF attr.dyn = "error"
            THEN Append(event, Field(attr.key, "err", 0, attr.str, <<>>))
            ELSE Append(event, Field(attr.key, "any", attr.num, attr.dyn, <<>>))
      [] OTHER -> event

\* collections.ForEach(attrs, func(a) { event = appendAttrToEvent(a, event) })
RECURSIVE ForEachAppend(_, _, _)
ForEachAppend(attrs, i, event) ==
    IF i > Len(attrs) THEN event
    ELSE ForEachAppend(attrs, i + 1, appendAttrToEvent(attrs[i], event))

(***************************************************************************)
(* Slices over the heap.                                                   *)
(***************************************************************************)
NilSlice == [arr |-> 0, len |-> 0, cap |-> 0]

\* the zero value of type group
ZeroGroup == [name |-> "", attrs |-> NilSlice]

\* the elements s[0:len] of a []slog.Attr, read from the heap aa
AttrsOf(aa, s) == [j \in 1..s.len |-> aa[s.arr][j]]

\* the elements s[0:len] of a []group, read from the heap ga
GroupsOf(ga, s) == [j \in 1..s.len |-> ga[s.arr][j]]

\* make([]slog.Attr, len, cap)
MakeAttrs(aa, len, cap) ==
    IF cap = 0 THEN [aa |-> aa, s |-> NilSlice]
    ELSE [aa |-> Append(aa, [j \in 1..cap |-> ZeroAttr]),
          s |-> [arr |-> Len(aa) + 1, len |-> len, cap |-> cap]]

\* the capacity runtime.growslice picks for a small slice: double, or what is
\* needed; the rounding up to an allocation size class is left out.  clone
\* sizes every slice for the append that follows, so the code never gets here.
GrowCap(oldCap, needed) == IF needed > 2 * oldCap THEN needed ELSE 2 * oldCap

\* append(s, xs...) on a []slog.Attr: in place when the capacity allows
AppendAttrs(aa, s, xs) ==
    LET n == Len(xs) IN
    IF n = 0 THEN [aa |-> aa, s |-> s]
    ELSE IF s.len + n <= s.cap
    THEN [aa |-> [aa EXCEPT ![s.arr] =
                    [j \in 1..s.cap |->
                        IF j > s.len /\ j <= s.len + n THEN xs[j - s.len] ELSE @[j]]],
          s |-> [s EXCEPT !.len = s.len + n]]
    ELSE LET c == GrowCap(s.cap, s.len + n)
             old == AttrsOf(aa, s)
         IN [aa |-> Append(aa, [j \in 1..c |->
                        IF j <= s.len THEN old[j]
                        ELSE IF j <= s.len + n THEN xs[j - s.len] ELSE ZeroAttr]),
             s |-> [arr |-> Len(aa) + 1, len |-> s.len + n, cap |-> c]]

\* append(s, g) on a []group
AppendGroup(ga, s, g) ==
    IF s.len + 1 <= s.cap
    THEN [ga |-> [ga EXCEPT ![s.arr] =
                    [j \in 1..s.cap |-> IF j = s.len + 1 THEN g ELSE @[j]]],
          s |-> [s EXCEPT !.len = s.len + 1]]
    ELSE LET c == GrowCap(s.cap, s.len + 1)
             old == GroupsOf(ga, s)
         IN [ga |-> Append(ga, [j \in 1..c |->
                        IF j <= s.len THEN old[j]
                        ELSE IF j = s.len + 1 THEN g ELSE ZeroGroup]),
             s |-> [arr |-> Len(ga) + 1, len |-> s.len + 1, cap |-> c]]

(***************************************************************************)
(* ZerologHandler: construction and derivation.                            *)
(***************************************************************************)
\* NewZerologHandler(log, opts): one zero-valued group, the options copied
NewZerologHandler(ga, log, opts) ==
    [ga |-> Append(ga, <<ZeroGroup>>),
     h |-> [log |-> log,
            groups |-> [arr |-> Len(ga) + 1, len |-> 1, cap |-> 1],
            opts |-> opts]]

\* the body of clone's loop "for i, g := range h.groups"
RECURSIVE cloneLoop(_, _, _, _, _, _)
cloneLoop(src, i, lastID, addSizeCap, aa, cells) ==
    IF i > Len(src) THEN [aa |-> aa, cells |-> cells]
    ELSE LET g == src[i]
             capValue == g.attrs.len + (IF lastID = i THEN addSizeCap ELSE 0)
             m == MakeAttrs(aa, g.attrs.len, capValue)
             \* copy(newh.groups[i].attrs, g.attrs)
             copied == IF g.attrs.len = 0 THEN m.aa
                       ELSE [m.aa EXCEPT ![m.s.arr] =
                               [j \in 1..capValue |->
                                   IF j <= g.attrs.len THEN aa[g.attrs.arr][j] ELSE @[j]]]
         IN cloneLoop(src, i + 1, lastID, addSizeCap, copied,
                      Append(cells, [name |-> g.name, attrs |-> m.s]))

\* a clone that copies the handler struct only: the groups slice is shared
cloneShallow(ga, aa, h, addGroupsCap, addSizeCap) ==
    [ga |-> ga, aa |-> aa, h |-> h]

\* h.clone(addGroupsCap, addSizeCap): fresh storage for the group list and
\* for every group's attribute list
clone(ga, aa, h, addGroupsCap, addSizeCap) ==
    LET n == h.groups.len
        c == n + addGroupsCap
        lp == cloneLoop(GroupsOf(ga, h.groups), 1, n, addSizeCap, aa, <<>>)
    IN [ga |-> Append(ga, [j \in 1..c |-> IF j <= n THEN lp.cells[j] ELSE ZeroGroup]),
        aa |-> lp.aa,
        h |-> [log |-> h.log,
               groups |-> [arr |-> Len(ga) + 1, len |-> n, cap |-> c],
               opts |-> h.opts]]

\* h.WithAttrs(attrs): the heap and the handler it returns
WithAttrs(ga, aa, h, attrs) ==
    LET c == clone(ga, aa, h, 0, Len(attrs))
        newh == c.h
        lastGroupIDx == newh.groups.len
        ap == AppendAttrs(c.aa, c.ga[newh.groups.arr][lastGroupIDx].attrs, attrs)
    IN [ga |-> [c.ga EXCEPT ![newh.groups.arr][lastGroupIDx].attrs = ap.s],
        aa |-> ap.aa,
        h |-> newh]

\* a WithGroup that forgets to return the receiver for the empty name
NeverEmptyName(name) == FALSE

\* the test 'name == ""' of WithGroup
IsEmptyName(name) == name = ""

\* h.WithGroup(name) for a non-empty name: the heap and the handler it returns
WithGroup(ga, aa, h, name) ==
    LET c == clone(ga, aa, h, 1, 0)
        ap == AppendGroup(c.ga, c.h.groups, [name |-> name, attrs |-> NilSlice])
    IN [ga |-> ap.ga,
        aa |-> c.aa,
        h |-> [c.h EXCEPT !.groups = ap.s]]

\* a handler's groups with their attribute lists, as Handle reads them
View(ga, aa, h) ==
    LET gs == GroupsOf(ga, h.groups)
    IN [j \in 1..Len(gs) |-> [name |-> gs[j].name, attrs |-> AttrsOf(aa, gs[j].attrs)]]

(***************************************************************************)
(* The context carrier and the field store (context.go).                   *)
(***************************************************************************)
\* context.Background()
Background == [kind |-> "background", parent |-> 0, key |-> "", val |-> 0]

\* ctx.Value(key): keys are compared as interface values, so a key matches
\* only a binding whose key has the same dynamic type (and value); both key
\* types here are empty-valued, so the type name decides.  0 is nil.
RECURSIVE Value(_, _, _)
Value(ctxs, c, key) ==
    IF c = 0 \/ ctxs[c].kind = "background" THEN 0
    ELSE IF ctxs[c].key = key THEN ctxs[c].val
    ELSE Value(ctxs, ctxs[c].parent, key)

\* the key WithSlogFields binds the store under: logFieldsCtxKey{}
BindKey == "logFieldsCtxKey"

\* the key slogFieldsFromContext looks the store up under: slogFieldsStore{}
LookupKey == "slogFieldsStore"

\* a lookup under the key the store is bound under
LookupUnderBindKey(ctxs, c) == Value(ctxs, c, BindKey)

\* slogFieldsFromContext(ctx): the store (0 for nil)
slogFieldsFromContext(ctxs, c) == Value(ctxs, c, LookupKey)

(***************************************************************************)
(* Enabled and Handle.                                                     *)
(***************************************************************************)
\* h.log.Debug().Enabled() and the like: the logger hands out an enabled
\* event for a level that is not below its minimum level
SinkEnabled(log, zlevel) == zlevel >= log.level

\* a switch whose LevelWarn case asks the Error event
EnabledSwitchSwapped(level) ==
    CASE level = LevelDebug -> ZDebugLevel
      [] level = LevelInfo -> ZInfoLevel
      [] level = LevelWarn -> ZErrorLevel
      [] level = LevelError -> ZErrorLevel
      [] OTHER -> -1

\* the switch of Enabled: the zerolog level whose event is asked whether it
\* is enabled, -1 in the default case
EnabledSwitch(level) ==
    CASE level = LevelDebug -> ZDebugLevel
      [] level = LevelInfo -> ZInfoLevel
      [] level = LevelWarn -> ZWarnLevel
      [] level = LevelError -> ZErrorLevel
      [] OTHER -> -1

\* a switch whose default case builds the Info event
HandleSwitchDefaultInfo(level) ==
    CASE level = LevelDebug -> ZDebugLevel
      [] level = LevelInfo -> ZInfoLevel
      [] level = LevelWarn -> ZWarnLevel
      [] level = LevelError -> ZErrorLevel
      [] OTHER -> ZInfoLevel

\* the switch of Handle: the zerolog level of the event built, -1 in the
\* default case (the error return)
HandleSwitch(level) ==
    CASE level = LevelDebug -> ZDebugLevel
      [] level = LevelInfo -> ZInfoLevel
      [] level = LevelWarn -> ZWarnLevel
      [] level = LevelError -> ZErrorLevel
      [] OTHER -> -1

\* zerolog's name of a level, the value of the event's "level" field
ZLevelName(z) ==
    CASE z = ZDebugLevel -> "debug"
      [] z = ZInfoLevel -> "info"
      [] z = ZWarnLevel -> "warn"
      [] z = ZErrorLevel -> "error"
      [] OTHER -> ""

\* h.Enabled(ctx, level)
Enabled(h, level) ==
    LET z == EnabledSwitch(level)
    IN IF z = -1 THEN FALSE ELSE SinkEnabled(h.log, z)

\* a fold of the record's attributes into every group of the walk
IsAnyIndex(i, lastIDx) == TRUE

\* the test "i == lastIDx" that guards the fold of the record's attributes
IsLast(i, lastIDx) == i = lastIDx

\* Handle's loop "for i := lastIDx; i >= 0; i--" from index i (1-based here)
\* down; st carries event, prev, prevName and what the walk did
RECURSIVE HandleLoop(_, _, _, _, _)
HandleLoop(groups, i, recordAttrs, storeFields, st) ==
    IF i < 1 THEN st
    ELSE
      LET current == groups[i]
          lastIDx == Len(groups)
      IN IF current.name = ""
         THEN LET e1 == ForEachAppend(current.attrs, 1, st.event)
                  e2 == IF IsLast(i, lastIDx) THEN ForEachAppend(recordAttrs, 1, e1)
                        ELSE e1
                  \* storeFields is <<>> when store is nil or holds no fields
                  e3 == ForEachAppend(storeFields, 1, e2)
              IN [st EXCEPT !.event = e3, !.stop = i - 1,
                            !.ambient = Len(e3) - Len(e2)]
         ELSE LET g1 == ForEachAppend(current.attrs, 1, <<>>)
                  g2 == IF IsLast(i, lastIDx) THEN ForEachAppend(recordAttrs, 1, g1)
                        ELSE g1
                  g3 == IF st.hasPrev
                        THEN Append(g2, Field(st.prevName, "dict", 0, "", st.prev))
                        ELSE g2
              IN HandleLoop(groups, i - 1, recordAttrs, storeFields,
                    [st EXCEPT !.hasPrev = TRUE, !.prev = g3,
                               !.prevName = current.name, !.prevIdx = i,
                               !.built = @ + 1,
                               !.attached = IF st.hasPrev
                                            THEN [@ EXCEPT ![st.prevIdx] = @ + 1]
                                            ELSE @])

\* h.Handle(ctx, record): the error returned, whether an event was sent and
\* the event's fields.  groups is the handler's View, store the result of
\* slogFieldsFromContext(ctx) (0 for nil), fieldsOf its fields.
Handle(h, groups, store, fieldsOf, record) ==
    LET z == HandleSwitch(record.Level)
        none == [err |-> "", emitted |-> FALSE, event |-> <<>>, sends |-> 0,
                 skipFrame |-> 0, stop |-> -1, ambient |-> 0, built |-> 0,
                 attached |-> [j \in 1..Len(groups) |-> 0]]
    IN IF z = -1 THEN [none EXCEPT !.err = "unsupported log level"]
       ELSE IF ~SinkEnabled(h.log, z) THEN none
       ELSE
         LET e0 == <<Field("level", "str", 0, ZLevelName(z), <<>>)>>
             e1 == IF ~h.opts.SkipTime /\ record.Time # 0
                   THEN Append(e0, Field("time", "time", record.Time, "", <<>>))
                   ELSE e0
             skip == IF record.PC # 0 THEN record.PC ELSE 0
             storeFields == IF store # 0 /\ Len(fieldsOf) > 0 THEN fieldsOf ELSE <<>>
             st == HandleLoop(groups, Len(groups), record.attrs, storeFields,
                      [event |-> e1, hasPrev |-> FALSE, prev |-> <<>>,
                       prevName |-> "", prevIdx |-> 0, stop |-> -1, ambient |-> 0,
                       built |-> 0, attached |-> [j \in 1..Len(groups) |-> 0]])
             e2 == IF st.hasPrev /\ st.prevName # ""
                   THEN Append(st.event, Field(st.prevName, "dict", 0, "", st.prev))
                   ELSE st.event
             att == IF st.hasPrev /\ st.prevName # ""
                    THEN [st.attached EXCEPT ![st.prevIdx] = @ + 1]
                    ELSE st.attached
             e3 == IF record.Message = "" THEN e2
                   ELSE Append(e2, Field("message", "str", 0, record.Message, <<>>))
         IN [err |-> "", emitted |-> TRUE, event |-> e3, sends |-> 1,
             skipFrame |-> skip, stop |-> st.stop, ambient |-> st.ambient,
             built |-> st.built, attached |-> att]

(***************************************************************************)
(* Inputs of the operations.                                               *)
(***************************************************************************)
X == IntAttr("x", 1)
Y == IntAttr("y", 2)
K == StrAttr("k", "v")
\* a group-kind attribute holding a zero attribute, a lazily resolved value,
\* an error and a nested group that holds a zero attribute again
G == GroupAttr("g", <<ZeroAttr, ValuerAttr("l", IntAttr("", 7)),
                      ErrAttr("e", "boom"), GroupAttr("n", <<ZeroAttr, Y>>)>>)

AttrInputs == {<<X>>, <<ZeroAttr, G>>}
GroupNames == {"", "a", "b"}
StoreInputs == {<<K, ZeroAttr>>}

Record(level, time, pc, msg, attrs) ==
    [Level |-> level, Time |-> time, PC |-> pc, Message |-> msg, attrs |-> attrs]

NoRecord == Record(0, 0, 0, "", <<>>)

Levels == {LevelDebug, LevelInfo, LevelInfo + 1, LevelWarn, LevelError}

\* records of every level, without attributes, time, PC or message
LevelRecords == {Record(l, 0, 0, "", <<>>) : l \in Levels}

\* enabled records with and without attributes, time, PC and message
AttrRecords ==
    {Record(LevelInfo, 0, 0, "", <<>>), Record(LevelWarn, 1, 1, "run", <<Y>>),
     Record(LevelError, 0, 0, "", <<ZeroAttr>>)}

NoOut ==
    [err |-> "", emitted |-> FALSE, event |-> <<>>, sends |-> 0, skipFrame |-> 0,
     stop |-> -1, ambient |-> 0, built |-> 0, attached |-> <<>>]

Call(op, h, c, r, retH, retCtx, retBool, out) ==
    [op |-> op, h |-> h, ctx |-> c, record |-> r, retH |-> retH,
     retCtx |-> retCtx, retBool |-> retBool, out |-> out]

(***************************************************************************)
(* The state machine.                                                      *)
(***************************************************************************)
\* the state after NewZerologHandler(log, opts) with a logger of minimum
\* level lvl, and context.Background()
InitWith(lvl, skip) ==
    LET n == NewZerologHandler(<<>>, [level |-> lvl], [SkipTime |-> skip])
    IN /\ handlers = <<n.h>>
       /\ groupArrays = n.ga
       /\ attrArrays = <<>>
       /\ contexts = <<Background>>
       /\ stores = <<>>
       /\ storeArrays = <<>>
       /\ last = Call("New", 0, 0, NoRecord, 1, 0, FALSE, NoOut)

WithAttrsAct(maxHandlers) ==
    \E h \in 1..Len(handlers), attrs \in AttrInputs :
        /\ Len(handlers) < maxHandlers
        /\ LET w == WithAttrs(groupArrays, attrArrays, handlers[h], attrs)
           IN /\ groupArrays' = w.ga
              /\ attrArrays' = w.aa
              /\ handlers' = Append(handlers, w.h)
              /\ last' = Call("WithAttrs", h, 0, NoRecord, Len(handlers) + 1, 0,
                              FALSE, NoOut)
        /\ UNCHANGED <<contexts, stores, storeArrays>>

WithGroupAct(maxHandlers) ==
    \E h \in 1..Len(handlers), name \in GroupNames :
        IF IsEmptyName(name)
        THEN /\ last' = Call("WithGroup", h, 0, NoRecord, h, 0, FALSE, NoOut)
             /\ UNCHANGED <<handlers, groupArrays, attrArrays, contexts, stores,
                            storeArrays>>
        ELSE /\ Len(handlers) < maxHandlers
             /\ LET w == WithGroup(groupArrays, attrArrays, handlers[h], name)
                IN /\ groupArrays' = w.ga
                   /\ attrArrays' = w.aa
                   /\ handlers' = Append(handlers, w.h)
                   /\ last' = Call("WithGroup", h, 0, NoRecord, Len(handlers) + 1,
                                   0, FALSE, NoOut)
             /\ UNCHANGED <<contexts, stores, storeArrays>>

EnabledAct ==
    \E h \in 1..Len(handlers), level \in Levels :
        /\ last' = Call("Enabled", h, 1, Record(level, 0, 0, "", <<>>), 0, 0,
                        Enabled(handlers[h], level), NoOut)
        /\ UNCHANGED <<handlers, groupArrays, attrArrays, contexts, stores,
                       storeArrays>>

\* the fields of the store (<<>> for a nil store)
FieldsOf(sts, sa, store) ==
    IF store = 0 THEN <<>> ELSE AttrsOf(sa, sts[store].fields)

\* Handle as called on handler h with context c and record r, over the given
\* handlers, heaps and contexts
HandleIn(hs, ga, aa, ctxs, sts, sa, h, c, r) ==
    Handle(hs[h], View(ga, aa, hs[h]), slogFieldsFromContext(ctxs, c),
           FieldsOf(sts, sa, slogFieldsFromContext(ctxs, c)), r)

\* Handle as called in this state
HandleOf(h, c, r) ==
    HandleIn(handlers, groupArrays, attrArrays, contexts, stores, storeArrays,
             h, c, r)

HandleAct(records) ==
    \E h \in 1..Len(handlers), c \in 1..Len(contexts), r \in records :
        /\ last' = Call("Handle", h, c, r, 0, 0, FALSE, HandleOf(h, c, r))
        /\ UNCHANGED <<handlers, groupArrays, attrArrays, contexts, stores,
                       storeArrays>>

WithSlogFieldsAct ==
    \E c \in 1..Len(contexts), attrs \in StoreInputs :
        LET existingStore == slogFieldsFromContext(contexts, c)
        IN IF existingStore = 0
           THEN /\ Len(contexts) < MaxContexts
                \* the store keeps the variadic slice itself
                /\ LET m == MakeAttrs(storeArrays, 0, Len(attrs))
                       filled == AppendAttrs(m.aa, m.s, attrs)
                   IN /\ storeArrays' = filled.aa
                      /\ stores' = Append(stores, [fields |-> filled.s])
                /\ contexts' = Append(contexts,
                       [kind |-> "value", parent |-> c, key |-> BindKey,
                        val |-> Len(stores) + 1])
                /\ last' = Call("WithSlogFields", 0, c, NoRecord, 0,
                                Len(contexts) + 1, FALSE, NoOut)
                /\ UNCHANGED <<handlers, groupArrays, attrArrays>>
           ELSE /\ stores[existingStore].fields.len + Len(attrs) <= MaxStoreFields
                /\ LET ap == AppendAttrs(storeArrays, stores[existingStore].fields,
                                         attrs)
                   IN /\ storeArrays' = ap.aa
                      /\ stores' = [stores EXCEPT ![existingStore].fields = ap.s]
                /\ last' = Call("WithSlogFields", 0, c, NoRecord, 0, c, FALSE, NoOut)
                /\ UNCHANGED <<handlers, groupArrays, attrArrays, contexts>>

\* Derivation and Handle on one logger, with the background context
Init == InitWith(ZInfoLevel, FALSE)

Next ==
    \/ WithAttrsAct(MaxHandlers)
    \/ WithGroupAct(MaxHandlers)
    \/ HandleAct(AttrRecords)

Spec == Init /\ [][Next]_vars

\* Derivation alone: every handler that derivations can build
NextDerive ==
    \/ WithAttrsAct(MaxHandlers)
    \/ WithGroupAct(MaxHandlers)

SpecDerive == Init /\ [][NextDerive]_vars

\* The field store: contexts with fields attached, and handlers to log with
NextCtx ==
    \/ WithSlogFieldsAct
    \/ WithAttrsAct(MaxHandlersCtx)
    \/ WithGroupAct(MaxHandlersCtx)
    \/ HandleAct(AttrRecords)

SpecCtx == Init /\ [][NextCtx]_vars

\* Every minimum level of the logger, with and without timestamps
InitLevel == \E lvl \in SinkLevels, skip \in BOOLEAN : InitWith(lvl, skip)

NextLevel ==
    \/ EnabledAct
    \/ HandleAct(LevelRecords \cup AttrRecords)
    \/ WithAttrsAct(MaxHandlersLevel)
    \/ WithGroupAct(MaxHandlersLevel)

SpecLevel == InitLevel /\ [][NextLevel]_vars

(***************************************************************************)
(* What the properties below speak of.                                     *)
(***************************************************************************)
Recognized == {LevelDebug, LevelInfo, LevelWarn, LevelError}

\* the sink's own enablement of a recognized slog level: the levels are 4
\* apart in slog and 1 apart in zerolog
SinkOwn(log, level) == (level + 4) \div 4 >= log.level

LevelNameOf(level) ==
    CASE level = LevelDebug -> "debug"
      [] level = LevelInfo -> "info"
      [] level = LevelWarn -> "warn"
      [] level = LevelError -> "error"
      [] OTHER -> "?"

IsHandle == last.op = "Handle"
Emitted == IsHandle /\ last.out.emitted

\* the groups of the handler of the last call
LastView == View(groupArrays, attrArrays, handlers[last.h])

\* the fields a list of attributes is rendered to, on their own
Proj(attrs) == ForEachAppend(attrs, 1, <<>>)

\* the content of the dictionary of named group i: its own attributes, then
\* the next group's dictionary or, in the innermost group, the record's
RECURSIVE Nest(_, _, _)
Nest(gs, i, R) ==
    Proj(gs[i].attrs) \o
    (IF i = Len(gs) THEN Proj(R)
     ELSE <<Field(gs[i + 1].name, "dict", 0, "", Nest(gs, i + 1, R))>>)

\* level, and the time when it is set and not skipped
Header(h, r) ==
    <<Field("level", "str", 0, LevelNameOf(r.Level), <<>>)>> \o
    (IF ~h.opts.SkipTime /\ r.Time # 0
     THEN <<Field("time", "time", r.Time, "", <<>>)>> ELSE <<>>)

Trailer(r) ==
    IF r.Message = "" THEN <<>>
    ELSE <<Field("message", "str", 0, r.Message, <<>>)>>

\* the event with groups gs nested outside-in and ambient fields at the top
ExpectedEvent(h, gs, r, ambient) ==
    Header(h, r) \o Proj(gs[1].attrs) \o
    (IF Len(gs) = 1 THEN Proj(r.attrs) ELSE <<>>) \o ambient \o
    (IF Len(gs) > 1
     THEN <<Field(gs[2].name, "dict", 0, "", Nest(gs, 2, r.attrs))>> ELSE <<>>) \o
    Trailer(r)

\* the fields of the store that WithSlogFields bound on the way to context c
BoundFields(c) ==
    FieldsOf(stores, storeArrays, LookupUnderBindKey(contexts, c))

\* some field at any depth has key k
RECURSIVE HasKey(_, _)
HasKey(fields, k) ==
    \E j \in 1..Len(fields) : fields[j].key = k \/ HasKey(fields[j].sub, k)

\* some field at any depth renders the zero attribute: "":null
RECURSIVE HasZero(_)
HasZero(fields) ==
    \E j \in 1..Len(fields) :
        \/ fields[j].key = "" /\ fields[j].typ = "any" /\ fields[j].str = "nil"
        \/ HasZero(fields[j].sub)

\* view w continues view v: the same groups, with attributes or groups added
Extends(v, w) ==
    /\ Len(w) >= Len(v)
    /\ \A j \in 1..Len(v) :
        /\ w[j].name = v[j].name
        /\ Len(w[j].attrs) >= Len(v[j].attrs)
        /\ SubSeq(w[j].attrs, 1, Len(v[j].attrs)) = v[j].attrs
        /\ j < Len(v) => w[j].attrs = v[j].attrs

ViewOf(h) == View(groupArrays, attrArrays, handlers[h])

(***************************************************************************)
(* C1: with no named group open, fields attached to a context with         *)
(* WithSlogFields appear at the top level of the event that Handle emits   *)
(* for that context, after the record's own attributes.                    *)
(***************************************************************************)
C1_AmbientInjected ==
    (Emitted /\ Len(LastView) = 1) =>
        LET F == BoundFields(last.ctx)
            before == Len(Header(handlers[last.h], last.record))
                      + Len(Proj(LastView[1].attrs)) + Len(Proj(last.record.attrs))
        IN \A j \in 1..Len(F) :
              F[j] # ZeroAttr =>
                \E p \in (before + 1)..Len(last.out.event) :
                    <<last.out.event[p]>> = Proj(<<F[j]>>)

(***************************************************************************)
(* C2: WithSlogFields on a context that already carries a store returns    *)
(* that same context; only on a context without one does it return a new   *)
(* context.                                                                *)
(***************************************************************************)
C2_WriteThrough ==
    last.op = "WithSlogFields" =>
        IF LookupUnderBindKey(contexts, last.ctx) # 0
        THEN last.retCtx = last.ctx
        ELSE last.retCtx # last.ctx

(***************************************************************************)
(* C3: a named group that got no attributes, holds no group with           *)
(* attributes and gets none from the record leaves no trace in the event:  *)
(* its name is the key of no field.                                        *)
(***************************************************************************)
C3_GroupElision ==
    (Emitted /\ last.record.attrs = <<>>) =>
        \A i \in 2..Len(LastView) :
            (\A j \in i..Len(LastView) : LastView[j].attrs = <<>>)
                => ~HasKey(last.out.event, LastView[i].name)

(***************************************************************************)
(* C4: no field of an emitted event, at any depth, renders an attribute    *)
(* with an empty key and the zero value.                                   *)
(***************************************************************************)
C4_ZeroElision == Emitted => ~HasZero(last.out.event)

(***************************************************************************)
(* C5: no step changes a handler that exists: its group sequence, every    *)
(* group's attribute list, and so the event that Handle emits on it, are   *)
(* the same after any derivation from it or from any other handler.        *)
(***************************************************************************)
C5_Immutable ==
    [][\A h \in 1..Len(handlers) :
           /\ Len(handlers') >= h
           /\ handlers'[h] = handlers[h]
           /\ ViewOf(h)' = ViewOf(h)
           /\ \A r \in {Record(LevelWarn, 1, 1, "run", <<Y>>)} :
                 HandleIn(handlers', groupArrays', attrArrays', contexts', stores',
                          storeArrays', h, 1, r) = HandleOf(h, 1, r)]_vars

\* a handler with two descendants, one of which was extended again, that do
\* not continue each other
C5_Witness ==
    \E h1, h2, h3, h4 \in 1..Len(handlers) :
        /\ ViewOf(h1) # ViewOf(h2) /\ Extends(ViewOf(h1), ViewOf(h2))
        /\ ViewOf(h1) # ViewOf(h3) /\ Extends(ViewOf(h1), ViewOf(h3))
        /\ ~Extends(ViewOf(h2), ViewOf(h3)) /\ ~Extends(ViewOf(h3), ViewOf(h2))
        /\ ViewOf(h4) # ViewOf(h3) /\ Extends(ViewOf(h3), ViewOf(h4))

(***************************************************************************)
(* C6: the emitted event is the top-level attributes, then (with no named  *)
(* group) the record's attributes, then the named groups nested in the     *)
(* order they were opened, each with its attributes in insertion order,    *)
(* the record's attributes in the innermost one only.                      *)
(***************************************************************************)
C6_NestingOrder ==
    Emitted =>
        last.out.event =
            ExpectedEvent(handlers[last.h], LastView, last.record, <<>>)

\* two named groups, attributes outside them and a record with attributes
C6_Witness ==
    /\ Emitted
    /\ Len(LastView) = 3
    /\ LastView[2].name # LastView[3].name
    /\ LastView[1].attrs # <<>>
    /\ last.record.attrs # <<>>

(***************************************************************************)
(* C7: for a recognized level, Enabled is the sink's own enablement of     *)
(* that level, Handle emits an event (of that level) exactly when Enabled  *)
(* is true, and otherwise returns no error and emits nothing.              *)
(***************************************************************************)
C7_LevelGating ==
    /\ (last.op = "Enabled" /\ last.record.Level \in Recognized) =>
          last.retBool = SinkOwn(handlers[last.h].log, last.record.Level)
    /\ (IsHandle /\ last.record.Level \in Recognized) =>
          /\ last.out.emitted = Enabled(handlers[last.h], last.record.Level)
          /\ last.out.emitted = SinkOwn(handlers[last.h].log, last.record.Level)
          /\ last.out.err = ""
          /\ last.out.emitted =>
                /\ last.out.sends = 1
                /\ last.out.event[1] =
                      Field("level", "str", 0, LevelNameOf(last.record.Level), <<>>)
          /\ ~last.out.emitted => last.out.sends = 0 /\ last.out.event = <<>>

\* a record at the sink's minimum level was emitted, and one below it was not
C7_Witness ==
    /\ IsHandle
    /\ last.record.Level = LevelWarn
    /\ handlers[last.h].log.level = ZWarnLevel
    /\ last.out.emitted
    /\ ~Enabled(handlers[last.h], LevelInfo)

(***************************************************************************)
(* C8: for a level that is none of Debug, Info, Warn, Error, Handle        *)
(* returns the unsupported-level error and emits nothing, and Enabled      *)
(* returns false; Handle returns no other error.                           *)
(***************************************************************************)
C8_UnsupportedLevel ==
    /\ (IsHandle /\ last.record.Level \notin Recognized) =>
          /\ last.out.err = "unsupported log level"
          /\ ~last.out.emitted
          /\ last.out.sends = 0
          /\ last.out.event = <<>>
    /\ (last.op = "Enabled" /\ last.record.Level \notin Recognized) =>
          last.retBool = FALSE
    /\ (IsHandle /\ last.out.err # "") =>
          /\ last.record.Level \notin Recognized
          /\ last.out.err = "unsupported log level"

\* Handle of a record at Info+1, on a logger that would emit Info
C8_Witness ==
    /\ IsHandle
    /\ last.record.Level = LevelInfo + 1
    /\ last.out.err # ""
    /\ Enabled(handlers[last.h], LevelInfo)

C10_HandlerShape ==
    /\ \A h \in 1..Len(handlers) :
          /\ Len(ViewOf(h)) >= 1
          /\ ViewOf(h)[1].name = ""
          /\ \A i \in 2..Len(ViewOf(h)) : ViewOf(h)[i].name # ""
    /\ Emitted =>
          /\ last.out.stop = 0
          /\ last.out.built = Len(LastView) - 1
          /\ \A i \in 1..Len(LastView) :
                last.out.attached[i] = (IF i = 1 THEN 0 ELSE 1)
          /\ last.out.sends = 1

\* Handle on a handler with two named groups
C10_Witness == Emitted /\ Len(LastView) = 3

====
